---------------------------- MODULE Spec2Model ----------------------------
(***************************************************************************)
(* A model of the crafting optimizer of src/lib/optimize.ts (the current   *)
(* version of the file, lines 235-628): the discount curve, the cost       *)
(* evaluator, the craft simulator (simulateCraftMode / craftOne), the      *)
(* problem builder (getProblem / getConstraint) and the orchestrator       *)
(* optimizeCrafts.                                                         *)
(*                                                                         *)
(* Representation of JavaScript values                                     *)
(*  - An object used as a map (Inventory, CraftCounts, the clones) is a    *)
(*    function whose DOMAIN is the set of keys present.                    *)
(*  - The numbers the caller supplies (inventory, craftCounts) may be      *)
(*    negative or fractional: they are kept as integer numerators over 2   *)
(*    ("halves": 3 stands for 1.5, -2 for -1).  The maps produced by       *)
(*    cloneCountMap hold whole non-negative numbers and are kept as such.  *)
(*  - The recipe catalog is a sequence of entries in insertion order, as   *)
(*    the order of Object.entries / for-in is the insertion order.         *)
(***************************************************************************)
EXTENDS Integers, Sequences, FiniteSets, TLC

(***************************************************************************)
(* Bounds of the model.                                                    *)
(***************************************************************************)
\* Largest whole quantity of one artifact in a generated starting inventory.
MaxUnits == 2
\* Cap on the successful top-level attempts of one simulation run: the
\* simulations of some catalogs never stop, the model follows them this far.
MaxCrafts == 6
\* Largest value of a variable in the assignments a constraint is evaluated on.
MaxAssign == 2
\* Largest quantity of each of the two parts of a batch.
MaxBatch == 3
\* Largest base cost, in halves, of the range the discount is evaluated on.
MaxCostHalves == 24
\* Largest craft count, in halves, of the range the discount is evaluated on.
MaxHistory == 8

(***************************************************************************)
(* Small helpers.                                                          *)
(***************************************************************************)
Max2(a, b) == IF a >= b THEN a ELSE b

Min2(a, b) == IF a <= b THEN a ELSE b

Range(s) == {s[i] : i \in 1..Len(s)}

\* Math.round of a number given in halves: the nearest whole number, a tie
\* going up (Math.round(0.5) = 1, Math.round(-0.5) = 0, Math.round(-1.5) = -1).
MathRound(halves) == (halves + 1) \div 2

\* A JavaScript number that may be NaN: costs, XP and solved counts.
Num(v) == [nan |-> FALSE, v |-> v]

NaN == [nan |-> TRUE, v |-> 0]

NumAdd(a, b) == IF a.nan \/ b.nan THEN NaN ELSE Num(a.v + b.v)

NumTimes(a, b) == IF a.nan \/ b.nan THEN NaN ELSE Num(a.v * b.v)

\* a > 0, false for NaN
NumPositive(a) == ~a.nan /\ a.v > 0

\* A quotient of two numbers, kept exact as numerator over denominator.
Quotient(num, den) == [nan |-> FALSE, num |-> num, den |-> den]

NaNQuotient == [nan |-> TRUE, num |-> 0, den |-> 1]

\* A test `cost >= 0` in the place of `cost > 0`.
XpPerGeFromZero(xp, cost) ==
    IF ~cost.nan /\ cost.v >= 0
    THEN IF xp.nan THEN NaNQuotient ELSE Quotient(xp.v, cost.v)
    ELSE Quotient(0, 1)

\* cost > 0 ? xp / cost : 0
XpPerGe(xp, cost) ==
    IF NumPositive(cost)
    THEN IF xp.nan THEN NaNQuotient ELSE Quotient(xp.v, cost.v)
    ELSE Quotient(0, 1)

\* The map with no key.
EmptyMap == [k \in {} |-> 0]

\* The map holding the given <<key, value>> pairs.
MapOf(pairs) ==
    [k \in {pairs[i][1] : i \in 1..Len(pairs)} |->
        pairs[CHOOSE i \in 1..Len(pairs) : pairs[i][1] = k][2]]

\* map[key] || 0
Get(map, key) == IF key \in DOMAIN map THEN map[key] ELSE 0

\* map[key] = value
Put(map, key, value) ==
    [k \in (DOMAIN map) \cup {key} |-> IF k = key THEN value ELSE map[k]]

(***************************************************************************)
(* The recipe catalog (module data/recipes, an input of the engine).       *)
(* An entry is [name, craftable, xp, cost, ingredients]; craftable = FALSE *)
(* is a key whose value is null (recipes[name] is falsy), ingredients is   *)
(* the sequence of <<ingredient, quantity>> in insertion order.            *)
(***************************************************************************)
Recipe(name, xp, cost, ingredients) ==
    [name |-> name, craftable |-> TRUE, xp |-> xp, cost |-> cost,
     ingredients |-> ingredients]

NullRecipe(name) ==
    [name |-> name, craftable |-> FALSE, xp |-> 0, cost |-> 0,
     ingredients |-> <<>>]

\* Object.keys(recipes), in insertion order
Keys(recipes) == [i \in 1..Len(recipes) |-> recipes[i].name]

KeySet(recipes) == {recipes[i].name : i \in 1..Len(recipes)}

\* Boolean(recipes[artifact])
HasRecipe(recipes, artifact) ==
    \E i \in 1..Len(recipes) :
        recipes[i].name = artifact /\ recipes[i].craftable

\* recipes[artifact], for an artifact that has a recipe
RecipeOf(recipes, artifact) ==
    recipes[CHOOSE i \in 1..Len(recipes) : recipes[i].name = artifact]

\* artifact in recipe.ingredients
InIngredients(recipe, artifact) ==
    \E j \in 1..Len(recipe.ingredients) : recipe.ingredients[j][1] = artifact

\* recipe.ingredients[artifact]
QuantityOf(recipe, artifact) ==
    recipe.ingredients[CHOOSE j \in 1..Len(recipe.ingredients) :
                           recipe.ingredients[j][1] = artifact][2]

\* Every name a catalog mentions, as a key or as an ingredient.
NamesOf(recipes) ==
    KeySet(recipes) \cup
    UNION {{recipes[i].ingredients[j][1] : j \in 1..Len(recipes[i].ingredients)} :
              i \in 1..Len(recipes)}

\* The ingredients of an artifact, craftable or not.
EveryIngredient(recipes, artifact) ==
    IF HasRecipe(recipes, artifact)
    THEN {n \in NamesOf(recipes) : InIngredients(RecipeOf(recipes, artifact), n)}
    ELSE {}

\* The craftable ingredients of an artifact (the edges the recursions follow).
CraftableIngredients(recipes, artifact) ==
    IF HasRecipe(recipes, artifact)
    THEN {n \in NamesOf(recipes) :
             InIngredients(RecipeOf(recipes, artifact), n) /\ HasRecipe(recipes, n)}
    ELSE {}

\* The artifacts reachable from `from` through at most `steps` craftable-ingredient edges.
RECURSIVE ReachWithin(_, _, _)
ReachWithin(recipes, from, steps) ==
    IF steps = 0 THEN from
    ELSE ReachWithin(recipes,
                     from \cup UNION {CraftableIngredients(recipes, a) : a \in from},
                     steps - 1)

\* The artifacts an expansion of `artifact` visits below it.
Descendants(recipes, artifact) ==
    ReachWithin(recipes, CraftableIngredients(recipes, artifact), Len(recipes))

\* The expansion of `artifact` comes back to an artifact it is expanding.
ReachesCycle(recipes, artifact) ==
    \E a \in {artifact} \cup Descendants(recipes, artifact) :
        a \in Descendants(recipes, a)

\* The ingredient graph of the catalog has a cycle.
Cyclic(recipes) == \E a \in KeySet(recipes) : a \in Descendants(recipes, a)

(***************************************************************************)
(* The discount curve.  Math.pow(progress, 0.2) is irrational for every    *)
(* craft count strictly between 0 and 300, so the floor is decided by the  *)
(* exact comparison                                                        *)
(*      k >= 0.9 * baseCost * (craftCount / 300) ^ (1/5)                   *)
(*  <=> 300 * (10 k)^5 >= craftCount * (9 baseCost)^5                      *)
(* which needs more than 32 bits: it is computed on little-endian          *)
(* sequences of base-10000 digits.                                         *)
(***************************************************************************)
RECURSIVE BigOf(_)
BigOf(n) == IF n = 0 THEN <<>> ELSE <<n % 10000>> \o BigOf(n \div 10000)

RECURSIVE BigTimes(_, _, _)
BigTimes(digits, factor, carry) ==
    IF digits = <<>> THEN BigOf(carry)
    ELSE LET t == digits[1] * factor + carry
         IN  <<t % 10000>> \o BigTimes(Tail(digits), factor, t \div 10000)

RECURSIVE BigTrim(_)
BigTrim(digits) ==
    IF digits # <<>> /\ digits[Len(digits)] = 0
    THEN BigTrim(SubSeq(digits, 1, Len(digits) - 1))
    ELSE digits

RECURSIVE BigLessTrimmed(_, _)
BigLessTrimmed(x, y) ==
    IF Len(x) # Len(y) THEN Len(x) < Len(y)
    ELSE IF x = <<>> THEN FALSE
    ELSE IF x[Len(x)] # y[Len(y)] THEN x[Len(x)] < y[Len(y)]
    ELSE BigLessTrimmed(SubSeq(x, 1, Len(x) - 1), SubSeq(y, 1, Len(y) - 1))

BigLess(x, y) == BigLessTrimmed(BigTrim(x), BigTrim(y))

\* scale * base^5
BigPow5Times(scale, base) ==
    BigTimes(BigTimes(BigTimes(BigTimes(BigTimes(BigOf(scale), base, 0),
                                        base, 0), base, 0), base, 0), base, 0)

\* The least k in lo..hi with k >= 0.9 * baseCost * (halves / 600)^(1/5),
\* by bisection (hi satisfies it).
RECURSIVE DiscountSteps(_, _, _, _)
DiscountSteps(baseCost, halves, lo, hi) ==
    IF lo >= hi THEN hi
    ELSE LET mid == (lo + hi) \div 2
         IN  IF BigLess(BigPow5Times(600, 10 * mid),
                        BigPow5Times(halves, 9 * baseCost))
             THEN DiscountSteps(baseCost, halves, mid + 1, hi)
             ELSE DiscountSteps(baseCost, halves, lo, mid)

MAX_CRAFT_COUNT_FOR_DISCOUNT == 300

\* A discount curve that reads the craft count one craft too far.
DiscountFromNextCraft(baseHalves, halves) ==
    IF baseHalves <= 0
    THEN [discountedCost |-> Num(0), discountPercent |-> Quotient(0, 1)]
    ELSE LET least == DiscountSteps(baseHalves, Min2(600, Max2(0, halves + 2)),
                                    0, baseHalves)
             t == IF (baseHalves - least) % 2 = 0 THEN least ELSE least + 1
             floored == (baseHalves - t) \div 2
         IN  [discountedCost |-> Num(floored),
              discountPercent |-> Quotient(baseHalves - 2 * floored, baseHalves)]

\* A discount curve whose multiplier is 0.9 * progress^0.2, without the
\* `1 -`.
DiscountRising(baseHalves, halves) ==
    IF baseHalves <= 0
    THEN [discountedCost |-> Num(0), discountPercent |-> Quotient(0, 1)]
    ELSE LET least == DiscountSteps(baseHalves, Min2(600, Max2(0, halves)),
                                    0, baseHalves)
             floored == least \div 2
         IN  [discountedCost |-> Num(floored),
              discountPercent |-> Quotient(baseHalves - 2 * floored, baseHalves)]

\* getDiscountedCost(baseCost, craftCount), base cost and craft count both
\* given in halves.  A negative craft count makes Math.pow(progress, 0.2)
\* NaN, and the cost and the percentage with it.  Below 300 crafts the
\* floor of baseCost * multiplier is (baseHalves - t) / 2 for the least t
\* of the parity of baseHalves with t >= 0.9 * baseHalves * progress^0.2.
\* From 300 crafts on, the multiplier is the double
\* 1 - 0.9 = 0.09999999999999998, just under 0.1, so that the floor of its
\* product with a multiple of 10 is one less than a tenth of it.
\* discountPercent = 1 - discountedCost / baseCost is kept exact.
Discount(baseHalves, halves) ==
    IF baseHalves <= 0
    THEN [discountedCost |-> Num(0), discountPercent |-> Quotient(0, 1)]
    ELSE IF halves < 0
    THEN [discountedCost |-> NaN, discountPercent |-> NaNQuotient]
    ELSE LET floored ==
                 IF halves >= 2 * MAX_CRAFT_COUNT_FOR_DISCOUNT
                 THEN IF baseHalves % 20 = 0
                      THEN baseHalves \div 20 - 1
                      ELSE baseHalves \div 20
                 ELSE LET least == DiscountSteps(baseHalves, halves, 0, baseHalves)
                          t == IF (baseHalves - least) % 2 = 0 THEN least ELSE least + 1
                      IN  (baseHalves - t) \div 2
         IN  [discountedCost |-> Num(floored),
              discountPercent |-> Quotient(baseHalves - 2 * floored, baseHalves)]

\* The recipe costs of the catalogs and the craft counts below the
\* saturation that the simulations pass through.
TabulatedCosts == {3, 5, 6, 7, 100}

TabulatedHistories == 0..(4 * MaxCrafts + 8)

\* The discounted unit costs of the tabulated arguments, computed once.
DiscountedCosts ==
    [baseCost \in TabulatedCosts, halves \in TabulatedHistories |->
        Discount(2 * baseCost, halves).discountedCost]

\* getDiscountedCost(baseCost, craftCount).discountedCost for a whole base
\* cost, the craft count given in halves.
getDiscountedCost(baseCost, halves) ==
    IF baseCost \in TabulatedCosts /\ halves \in TabulatedHistories
    THEN DiscountedCosts[baseCost, halves]
    ELSE Discount(2 * baseCost, halves).discountedCost

(***************************************************************************)
(* The cost evaluator.  Craft counts are read from the caller's map as     *)
(* they are (in halves); planned counts and quantities are whole.          *)
(***************************************************************************)
\* The loop of getBatchDirectCost from `index` on.
RECURSIVE BatchFrom(_, _, _, _)
BatchFrom(baseCost, craftCount, index, craftTotal) ==
    IF index >= craftTotal THEN Num(0)
    ELSE NumAdd(getDiscountedCost(baseCost, craftCount + 2 * index),
                BatchFrom(baseCost, craftCount, index + 1, craftTotal))

\* A getBatchDirectCost that charges every craft of the batch the unit cost
\* of the first.
getBatchDirectCostFlat(baseCost, craftCount, quantity) ==
    IF baseCost <= 0 \/ quantity.nan \/ quantity.v <= 0 THEN Num(0)
    ELSE NumTimes(quantity, getDiscountedCost(baseCost, craftCount))

\* getBatchDirectCost(baseCost, craftCount, quantity).  A NaN quantity passes
\* the guard (NaN <= 0 is false) and gives a NaN craftTotal, for which the
\* loop body never runs.  Math.round leaves a whole quantity as it is.
getBatchDirectCost(baseCost, craftCount, quantity) ==
    IF baseCost <= 0 \/ (~quantity.nan /\ quantity.v <= 0) THEN Num(0)
    ELSE IF quantity.nan THEN Num(0)
    ELSE BatchFrom(baseCost, craftCount, 0, Max2(0, quantity.v))

\* getRecursiveCraftCost threads the projected craft counts through the
\* expansion: the operators return [cost, projected].
RECURSIVE getRecursiveCraftCost(_, _, _)
RECURSIVE RecursiveIngredients(_, _, _)
RECURSIVE RecursiveUnits(_, _, _, _)
\* A getRecursiveCraftCost that advances the artifact's projected craft
\* count before it prices the artifact's own craft.
getRecursiveCraftCostCountFirst(catalog, projected, target) ==
    IF ~HasRecipe(catalog, target)
    THEN [cost |-> Num(0), projected |-> projected]
    ELSE LET recipe == RecipeOf(catalog, target)
             below == RecursiveIngredients(
                          catalog, [cost |-> Num(0), projected |-> projected],
                          recipe.ingredients)
             craftCount == Get(below.projected, target) + 2
         IN  [cost |-> NumAdd(below.cost, getDiscountedCost(recipe.cost, craftCount)),
              projected |-> Put(below.projected, target, craftCount)]

getRecursiveCraftCost(catalog, projected, target) ==
    IF ~HasRecipe(catalog, target)
    THEN [cost |-> Num(0), projected |-> projected]
    ELSE LET recipe == RecipeOf(catalog, target)
             below == RecursiveIngredients(
                          catalog, [cost |-> Num(0), projected |-> projected],
                          recipe.ingredients)
             craftCount == Get(below.projected, target)
         IN  [cost |-> NumAdd(below.cost, getDiscountedCost(recipe.cost, craftCount)),
              projected |-> Put(below.projected, target, craftCount + 2)]

\* The for loop over Object.entries(recipe.ingredients).
RecursiveIngredients(catalog, acc, ingredients) ==
    IF ingredients = <<>> THEN acc
    ELSE IF ~HasRecipe(catalog, ingredients[1][1])
         THEN RecursiveIngredients(catalog, acc, Tail(ingredients))
         ELSE RecursiveIngredients(
                  catalog,
                  RecursiveUnits(catalog, acc, ingredients[1][1], ingredients[1][2]),
                  Tail(ingredients))

\* An inner loop that builds one unit whatever the quantity.
RecursiveUnitsOnce(catalog, acc, ingredient, times) ==
    IF times <= 0 THEN acc
    ELSE LET unit == getRecursiveCraftCost(catalog, acc.projected, ingredient)
         IN  [cost |-> NumAdd(acc.cost, unit.cost), projected |-> unit.projected]

\* The inner loop: `times` unit builds of one ingredient.
RecursiveUnits(catalog, acc, ingredient, times) ==
    IF times <= 0 THEN acc
    ELSE LET unit == getRecursiveCraftCost(catalog, acc.projected, ingredient)
         IN  RecursiveUnits(catalog,
                            [cost |-> NumAdd(acc.cost, unit.cost),
                             projected |-> unit.projected],
                            ingredient, times - 1)

\* getRecursiveCraftCost handed the caller's own map.
ProjectedObjectShared == "craftCounts"

\* The object getRecursiveCost hands to getRecursiveCraftCost: the spread copy.
ProjectedObject == "projectedCraftCounts"

\* A one-level breakdown that prices an ingredient without a recipe at the
\* cost of the artifact it goes into.
getIngredientCostsAtParentCost(catalog, craftCounts, target) ==
    IF ~HasRecipe(catalog, target) THEN <<>>
    ELSE LET recipe == RecipeOf(catalog, target)
             Entry(pair) ==
                 LET baseCost == IF HasRecipe(catalog, pair[1])
                                 THEN RecipeOf(catalog, pair[1]).cost
                                 ELSE recipe.cost
                     craftCount == Get(craftCounts, pair[1])
                     discount == Discount(2 * baseCost, craftCount)
                 IN  [name |-> pair[1], quantity |-> pair[2],
                      baseCost |-> baseCost,
                      discountedCost |-> discount.discountedCost,
                      totalCost |-> getBatchDirectCost(baseCost, craftCount,
                                                       Num(pair[2])),
                      craftCount |-> craftCount,
                      discountPercent |-> discount.discountPercent]
         IN  [j \in 1..Len(recipe.ingredients) |-> Entry(recipe.ingredients[j])]

\* getIngredientCosts(recipes, craftCounts, artifact): one entry for every
\* ingredient of the recipe, in insertion order.
getIngredientCosts(catalog, craftCounts, target) ==
    IF ~HasRecipe(catalog, target) THEN <<>>
    ELSE LET recipe == RecipeOf(catalog, target)
             Entry(pair) ==
                 LET baseCost == IF HasRecipe(catalog, pair[1])
                                 THEN RecipeOf(catalog, pair[1]).cost
                                 ELSE 0
                     craftCount == Get(craftCounts, pair[1])
                     discount == Discount(2 * baseCost, craftCount)
                 IN  [name |-> pair[1], quantity |-> pair[2],
                      baseCost |-> baseCost,
                      discountedCost |-> discount.discountedCost,
                      totalCost |-> getBatchDirectCost(baseCost, craftCount,
                                                       Num(pair[2])),
                      craftCount |-> craftCount,
                      discountPercent |-> discount.discountPercent]
         IN  [j \in 1..Len(recipe.ingredients) |-> Entry(recipe.ingredients[j])]

\* getCostDetails without recursiveCost, the field derived from a projected
\* copy of the craft counts.
getCostDetails(catalog, craftCounts, target, plannedCrafts) ==
    IF ~HasRecipe(catalog, target)
    THEN [baseCost |-> 0, discountedCost |-> Num(0), totalDirectCost |-> Num(0),
          craftCount |-> 0, discountPercent |-> Quotient(0, 1),
          ingredients |-> <<>>]
    ELSE LET recipe == RecipeOf(catalog, target)
             craftCount == Get(craftCounts, target)
             discount == Discount(2 * recipe.cost, craftCount)
         IN  [baseCost |-> recipe.cost,
              discountedCost |-> discount.discountedCost,
              totalDirectCost |->
                  getBatchDirectCost(recipe.cost, craftCount, plannedCrafts),
              craftCount |-> craftCount,
              discountPercent |-> discount.discountPercent,
              ingredients |-> getIngredientCosts(catalog, craftCounts, target)]

(***************************************************************************)
(* The problem builder.  A line of the problem text is kept with the       *)
(* section it belongs to and the artifact it is about; a constraint is     *)
(* kept as its parts and rendered by ConstraintText.                       *)
(***************************************************************************)
\* The names of the model in the order of their UTF-16 code units.
NameOrder == <<"A", "B", "C", "ghost", "raw">>

\* names.sort(), for names without duplicates
Sorted(names) == SelectSeq(NameOrder, LAMBDA n : n \in Range(names))

RECURSIVE Join(_, _)
Join(texts, separator) ==
    IF texts = <<>> THEN ""
    ELSE IF Len(texts) = 1 THEN texts[1]
    ELSE texts[1] \o separator \o Join(Tail(texts), separator)

\* The text of a number given in halves.
NumText(halves) ==
    IF halves % 2 = 0 THEN ToString(halves \div 2)
    ELSE IF halves > 0 THEN ToString(halves \div 2) \o ".5"
    ELSE "-" \o ToString((0 - halves) \div 2) \o ".5"

\* A getObjective without the `if (recipes[artifact])` test.
getObjectiveAllKeys(catalog, artifacts) ==
    Join([i \in 1..Len(artifacts) |->
             ToString(RecipeOf(catalog, artifacts[i]).xp) \o " " \o artifacts[i]],
         " + ")

\* getObjective(recipes, artifacts)
getObjective(catalog, artifacts) ==
    LET craftable == SelectSeq(artifacts, LAMBDA a : HasRecipe(catalog, a))
    IN  Join([i \in 1..Len(craftable) |->
                 ToString(RecipeOf(catalog, craftable[i]).xp) \o " " \o craftable[i]],
             " + ")

\* A getConstraint that leaves out the `- artifact` term.
getConstraintWithoutOwnTerm(catalog, inventory, target) ==
    LET parents == SelectSeq(catalog,
                             LAMBDA e : e.craftable /\ InIngredients(e, target))
    IN  [emitted |-> parents # <<>>,
         name |-> target,
         used |-> [i \in 1..Len(parents) |->
                      <<QuantityOf(parents[i], target), parents[i].name>>],
         subtract |-> FALSE,
         available |-> Get(inventory, target)]

\* getConstraint(recipes, inventory, artifact): `used` in the order of the
\* for-in over recipes; emitted = FALSE stands for null.
getConstraint(catalog, inventory, target) ==
    LET parents == SelectSeq(catalog,
                             LAMBDA e : e.craftable /\ InIngredients(e, target))
    IN  [emitted |-> parents # <<>>,
         name |-> target,
         used |-> [i \in 1..Len(parents) |->
                      <<QuantityOf(parents[i], target), parents[i].name>>],
         subtract |-> HasRecipe(catalog, target),
         available |-> Get(inventory, target)]

\* The string getConstraint returns.
ConstraintText(constraint) ==
    Join([i \in 1..Len(constraint.used) |->
             ToString(constraint.used[i][1]) \o " " \o constraint.used[i][2]],
         " + ")
    \o (IF constraint.subtract THEN " - " \o constraint.name ELSE "")
    \o " <= " \o NumText(constraint.available)

Line(section, name, text) == [section |-> section, name |-> name, text |-> text]

\* A getProblem whose loop over the bounds starts at the second artifact.
getProblemBoundsFromSecond(catalog, inventory) ==
    LET artifacts == Sorted(Keys(catalog))
        emitted == SelectSeq(artifacts,
                       LAMBDA a : getConstraint(catalog, inventory, a).emitted)
    IN  <<Line("Maximize", "", "Maximize"),
          Line("Maximize", "", "  obj: " \o getObjective(catalog, artifacts)),
          Line("Subject To", "", "Subject To")>>
        \o [i \in 1..Len(emitted) |->
               Line("Subject To", emitted[i],
                    "  c_" \o emitted[i] \o ": "
                    \o ConstraintText(getConstraint(catalog, inventory, emitted[i])))]
        \o <<Line("Bounds", "", "Bounds")>>
        \o [i \in 1..(Len(artifacts) - 1) |->
               Line("Bounds", artifacts[i + 1], "  " \o artifacts[i + 1] \o " >= 0")]
        \o <<Line("General", "", "General"),
             Line("General", "", "  " \o Join(artifacts, " ")),
             Line("End", "", "End")>>

\* getProblem(inventory), the lines in order (joined by newlines in the code).
getProblem(catalog, inventory) ==
    LET artifacts == Sorted(Keys(catalog))
        emitted == SelectSeq(artifacts,
                       LAMBDA a : getConstraint(catalog, inventory, a).emitted)
    IN  <<Line("Maximize", "", "Maximize"),
          Line("Maximize", "", "  obj: " \o getObjective(catalog, artifacts)),
          Line("Subject To", "", "Subject To")>>
        \o [i \in 1..Len(emitted) |->
               Line("Subject To", emitted[i],
                    "  c_" \o emitted[i] \o ": "
                    \o ConstraintText(getConstraint(catalog, inventory, emitted[i])))]
        \o <<Line("Bounds", "", "Bounds")>>
        \o [i \in 1..Len(artifacts) |->
               Line("Bounds", artifacts[i], "  " \o artifacts[i] \o " >= 0")]
        \o <<Line("General", "", "General"),
             Line("General", "", "  " \o Join(artifacts, " ")),
             Line("End", "", "End")>>

(***************************************************************************)
(* The catalogs of the model.                                              *)
(***************************************************************************)
\* One recipe without ingredients.
CatalogSingle == <<Recipe("A", 10, 100, <<>>)>>

\* One recipe over an ingredient that is no key of the catalog.
CatalogRawTwo == <<Recipe("A", 5, 0, <<<<"raw", 2>>>>)>>

\* An intermediate and a raw material, the intermediate listed first.
CatalogChain ==
    <<Recipe("A", 10, 6, <<<<"B", 1>>, <<"raw", 1>>>>),
      Recipe("B", 2, 3, <<<<"raw", 2>>>>)>>

\* B is reached from A directly and through C.
CatalogDiamond ==
    <<Recipe("A", 10, 6, <<<<"B", 1>>, <<"C", 1>>>>),
      Recipe("B", 2, 3, <<<<"raw", 1>>>>),
      Recipe("C", 4, 5, <<<<"B", 1>>>>)>>

\* A craftable ingredient that itself needs nothing.
CatalogLeaf ==
    <<Recipe("A", 10, 6, <<<<"B", 1>>>>), Recipe("B", 2, 3, <<>>)>>

\* Keys inserted out of order, one of them a raw material with a null recipe.
CatalogUnsorted ==
    <<Recipe("C", 4, 5, <<<<"raw", 1>>>>),
      Recipe("A", 10, 6, <<<<"raw", 2>>, <<"C", 1>>>>),
      NullRecipe("raw")>>

\* Malformed: A requires B and B requires A.
CatalogCycle == <<Recipe("A", 10, 6, <<<<"B", 1>>>>), Recipe("B", 2, 3, <<<<"A", 1>>>>)>>

\* Malformed: A requires itself.
CatalogSelf == <<Recipe("A", 10, 6, <<<<"A", 1>>>>)>>

Catalogs ==
    {CatalogSingle, CatalogRawTwo, CatalogChain, CatalogDiamond, CatalogLeaf,
     CatalogUnsorted, CatalogCycle, CatalogSelf}

(***************************************************************************)
(* The state.                                                              *)
(*   recipes   the catalog (never written)                                 *)
(*   heap      the map objects: the caller's "inventory" and "craftCounts" *)
(*             (numbers in halves), the clones a simulation works on and   *)
(*             the projected copy of the recursive cost                    *)
(*   pc        the position of the running call                            *)
(*   caller    who runs the simulation: "unit" (simulateCraftMode called   *)
(*             by itself), "direct" / "auto" (from getCraftModeComparison) *)
(*   artifact, allowAutocraft, totalCost, craftedCount                     *)
(*             the parameters and locals of simulateCraftMode              *)
(*   call      the craftOne call about to be entered                       *)
(*   frames    the activation records of the nested craftOne calls: the    *)
(*             artifact, the allowAutocraft flag, the position i of the    *)
(*             first for loop, and the simulation state at entry           *)
(*   stack     the Set of artifacts in progress                            *)
(*   ret       the craftOne call that returned last                        *)
(*   attemptStart  the simulation inventory when the running top-level     *)
(*             craftOne attempt began                                      *)
(*   simResult what simulateCraftMode returned or threw                    *)
(*   problem   the text getProblem built                                   *)
(*   solveCalls  the texts highs.solve was called with by the running      *)
(*             optimizeCrafts call                                         *)
(*   solution  what highs.solve returned                                   *)
(*   column    the position of the for-in loop over solution.Columns       *)
(*   row       the fields of the row in the making                         *)
(*   result    the Solution built so far                                   *)
(*   outcome   how optimizeCrafts ended                                    *)
(*   query     the arguments of a call of the cost functions by themselves *)
(*   answer    what that call returned                                     *)
(***************************************************************************)
VARIABLES recipes, heap, pc, caller, artifact, allowAutocraft, totalCost,
          craftedCount, call, frames, stack, ret, attemptStart, simResult,
          problem, solveCalls, solution, column, row, result, outcome, query,
          answer

simVars == <<caller, artifact, allowAutocraft, totalCost, craftedCount, call,
             frames, stack, ret, attemptStart, simResult>>

optVars == <<problem, solveCalls, solution, column, row, result, outcome>>

costVars == <<query, answer>>

vars == <<recipes, heap, pc, simVars, optVars, costVars>>

(***************************************************************************)
(* The inputs.                                                             *)
(***************************************************************************)
\* The inventories over the names of a catalog with whole quantities up to
\* MaxUnits; an artifact with quantity 0 is absent from the map.
WholeInventories(catalog) ==
    {[n \in {m \in NamesOf(catalog) : f[m] > 0} |-> 2 * f[n]] :
        f \in [NamesOf(catalog) -> 0..MaxUnits]}

\* Ten units of raw material; fractional, negative and zero quantities.
SpecialInventories ==
    {MapOf(<<<<"raw", 20>>>>),
     MapOf(<<<<"raw", 5>>, <<"B", -2>>, <<"A", 0>>>>)}

\* No history; one craft of A; a fractional, a negative and a saturated history.
CraftCountChoices ==
    {EmptyMap,
     MapOf(<<<<"A", 2>>>>),
     MapOf(<<<<"A", 3>>, <<"B", -2>>, <<"C", 600>>>>)}

NoCall == [artifact |-> "", auto |-> FALSE]

NoReturn ==
    [value |-> FALSE, artifact |-> "", auto |-> FALSE,
     entryInventory |-> EmptyMap, entryCraftCounts |-> EmptyMap, entryCost |-> Num(0)]

NoResult == [outcome |-> "none", count |-> 0, cost |-> Num(0)]

\* The answers of the solver: a column for every key of the catalog with
\* count 0, or with counts 1, 2, ... and a column for a name without recipe;
\* a negative or NaN count; an answer without Columns; null; an exception.
Responses(catalog) ==
    LET keys == Sorted(Keys(catalog))
    IN  {[kind |-> "columns",
          columns |-> [i \in 1..Len(keys) |-> [name |-> keys[i], primal |-> Num(0)]]],
         [kind |-> "columns",
          columns |-> [i \in 1..Len(keys) |-> [name |-> keys[i], primal |-> Num(i)]]
                      \o <<[name |-> "ghost", primal |-> Num(1)]>>],
         [kind |-> "columns",
          columns |-> <<[name |-> keys[1], primal |-> Num(-1)]>>],
         [kind |-> "columns",
          columns |-> <<[name |-> keys[1], primal |-> NaN]>>],
         [kind |-> "no-columns", columns |-> <<>>],
         [kind |-> "null", columns |-> <<>>],
         [kind |-> "throws", columns |-> <<>>]}

NoSolution == [kind |-> "none", columns |-> <<>>]

NoMetrics == [present |-> FALSE, count |-> 0, xp |-> Num(0), cost |-> Num(0)]

NoRow ==
    [artifact |-> "", count |-> Num(0), xp |-> Num(0), cost |-> Num(0),
     xpPerGe |-> Quotient(0, 1), xpPerCraft |-> 0,
     discountedCost |-> Num(0), discountPercent |-> Quotient(0, 1),
     craftCount |-> 0, recursiveCost |-> Num(0), ingredients |-> <<>>,
     direct |-> NoMetrics, auto |-> NoMetrics]

EmptyResult == [crafts |-> <<>>, totalXp |-> Num(0), totalCost |-> Num(0)]

OptIdle ==
    /\ problem = <<>>
    /\ solveCalls = <<>>
    /\ solution = NoSolution
    /\ column = 0
    /\ row = NoRow
    /\ result = EmptyResult
    /\ outcome = "none"

SimIdle ==
    /\ caller = "none"
    /\ artifact = ""
    /\ allowAutocraft = FALSE
    /\ totalCost = Num(0)
    /\ craftedCount = 0
    /\ call = NoCall
    /\ frames = <<>>
    /\ stack = {}
    /\ ret = NoReturn
    /\ attemptStart = EmptyMap
    /\ simResult = NoResult

NoQuery == [baseCost |-> 0, start |-> 0, first |-> 0, second |-> 0]

NoAnswer == [done |-> FALSE, whole |-> Num(0), first |-> Num(0), second |-> Num(0)]

CostIdle ==
    /\ query = NoQuery
    /\ answer = NoAnswer

Init ==
    /\ recipes \in Catalogs
    /\ \E inventory \in WholeInventories(recipes) \cup SpecialInventories,
          craftCounts \in CraftCountChoices :
          heap = [inventory |-> inventory, craftCounts |-> craftCounts,
                  inventoryClone |-> EmptyMap, craftCountsClone |-> EmptyMap,
                  projectedCraftCounts |-> EmptyMap]
    /\ pc = "idle"
    /\ SimIdle
    /\ OptIdle
    /\ CostIdle

(***************************************************************************)
(* cloneCountMap and simulateCraftMode.                                    *)
(***************************************************************************)
\* cloneCountMap(values): every key, its value rounded and floored at 0.
cloneCountMap(values) ==
    [key \in DOMAIN values |-> Max2(0, MathRound(values[key]))]

\* craftOne handed the caller's own maps.
SimulationObjectsShared == [inventory |-> "inventory", craftCounts |-> "craftCounts"]

\* The objects craftOne is handed by simulateCraftMode: the two clones.
SimulationObjects ==
    [inventory |-> "inventoryClone", craftCounts |-> "craftCountsClone"]

simulationInventory == heap[SimulationObjects.inventory]

simulationCraftCounts == heap[SimulationObjects.craftCounts]

\* The heap after cloning the caller's maps into the simulation's objects.
HeapWithClones ==
    LET cloned == [heap EXCEPT ![SimulationObjects.inventory] =
                                   cloneCountMap(heap["inventory"])]
    IN  [cloned EXCEPT ![SimulationObjects.craftCounts] =
                           cloneCountMap(heap["craftCounts"])]

\* simulateCraftMode up to its first craftOne call.
SimulateStart(who, target, autocraft) ==
    /\ heap' = HeapWithClones
    /\ caller' = who
    /\ artifact' = target
    /\ allowAutocraft' = autocraft
    /\ totalCost' = Num(0)
    /\ craftedCount' = 0
    /\ call' = [artifact |-> target, auto |-> autocraft]
    /\ frames' = <<>>
    /\ stack' = {}
    /\ ret' = NoReturn
    /\ attemptStart' = HeapWithClones[SimulationObjects.inventory]
    /\ simResult' = NoResult
    /\ pc' = "call"

\* simulateCraftMode called by itself, for any artifact and policy.
Simulate ==
    /\ pc = "idle"
    /\ \E target \in NamesOf(recipes), autocraft \in BOOLEAN :
          SimulateStart("unit", target, autocraft)
    /\ UNCHANGED <<costVars, recipes, optVars>>

(***************************************************************************)
(* craftOne, one step at a time.                                           *)
(***************************************************************************)
\* Math.max(0, Math.round(rawQuantity)); the quantities of the catalog are whole.
requiredQuantity(rawQuantity) == Max2(0, MathRound(2 * rawQuantity))

\* A shortage test that lets a craft through when one unit is missing.
IsShortByTwo(onHand, required) == onHand < required - 1

\* (inventory[ingredient] || 0) < requiredQuantity
IsShort(onHand, required) == onHand < required

\* A cycle guard that never finds the artifact.
InProgressNever(inProgress, target) == FALSE

\* stack.has(artifact)
InProgress(inProgress, target) == target \in inProgress

\* A deduction of one unit of every ingredient, whatever the recipe requires.
RECURSIVE DeductOneOfEach(_, _)
DeductOneOfEach(inventory, ingredients) ==
    IF ingredients = <<>> THEN inventory
    ELSE DeductOneOfEach(
             Put(inventory, ingredients[1][1],
                 Max2(0, Get(inventory, ingredients[1][1]) - 1)),
             Tail(ingredients))

\* The second for loop: every ingredient's required quantity taken out of
\* the inventory, floored at 0.
RECURSIVE DeductIngredients(_, _)
DeductIngredients(inventory, ingredients) ==
    IF ingredients = <<>> THEN inventory
    ELSE LET ingredient == ingredients[1][1]
             required == requiredQuantity(ingredients[1][2])
         IN  DeductIngredients(
                 Put(inventory, ingredient,
                     Max2(0, Get(inventory, ingredient) - required)),
                 Tail(ingredients))

\* A craft that puts nothing into the inventory.
WithCraftedNowhere(inventory, target) == inventory

\* inventory[artifact] = (inventory[artifact] || 0) + 1
WithCrafted(inventory, target) == Put(inventory, target, Get(inventory, target) + 1)

\* A return that leaves the artifact on the stack.
stackDeleteNothing(inProgress, target) == inProgress

\* stack.delete(artifact)
stackDelete(inProgress, target) == inProgress \ {target}

\* A cost callback that keeps the last cost only.
onCostOverwriting(total, cost) == cost

\* The callback simulateCraftMode hands to craftOne: totalCost += cost.
onCost(total, cost) == NumAdd(total, cost)

\* The record of a craftOne call that returns `value`.
Returned(value, frame) ==
    [value |-> value, artifact |-> frame.artifact, auto |-> frame.auto,
     entryInventory |-> frame.entryInventory,
     entryCraftCounts |-> frame.entryCraftCounts, entryCost |-> frame.entryCost]

NewFrame ==
    [artifact |-> call.artifact, auto |-> call.auto, i |-> 1,
     entryInventory |-> simulationInventory,
     entryCraftCounts |-> simulationCraftCounts, entryCost |-> totalCost]

Top == frames[Len(frames)]

Pop == SubSeq(frames, 1, Len(frames) - 1)

\* Lines 502-509: the recipe lookup, the cycle guard, stack.add.
CraftOneEnter ==
    /\ pc = "call"
    /\ IF ~HasRecipe(recipes, call.artifact)
       THEN /\ ret' = Returned(FALSE, NewFrame)
            /\ pc' = "return"
            /\ UNCHANGED <<frames, stack, simResult>>
       ELSE IF InProgress(stack, call.artifact)
       THEN \* the Error leaves every craftOne in progress and simulateCraftMode
            /\ simResult' = [outcome |-> "cycle", count |-> 0, cost |-> Num(0)]
            /\ pc' = "simulated"
            /\ frames' = <<>>
            /\ UNCHANGED <<stack, ret>>
       ELSE /\ stack' = stack \cup {call.artifact}
            /\ frames' = Append(frames, NewFrame)
            /\ pc' = "check"
            /\ UNCHANGED <<ret, simResult>>
    /\ call' = NoCall
    /\ UNCHANGED <<costVars, recipes, heap, caller, artifact, allowAutocraft, totalCost,
                   craftedCount, attemptStart, optVars>>

\* Lines 511-524: one evaluation of the while condition of the ingredient
\* the first for loop is at, and what follows from it.
CraftOneCheck ==
    /\ pc = "check"
    /\ LET frame == Top
           ingredients == RecipeOf(recipes, frame.artifact).ingredients
       IN  IF frame.i > Len(ingredients)
           THEN /\ pc' = "craft"
                /\ UNCHANGED <<call, frames, stack, ret>>
           ELSE LET ingredient == ingredients[frame.i][1]
                    required == requiredQuantity(ingredients[frame.i][2])
                IN  IF IsShort(Get(simulationInventory, ingredient), required)
                    THEN IF ~frame.auto \/ ~HasRecipe(recipes, ingredient)
                         THEN /\ stack' = stackDelete(stack, frame.artifact)
                              /\ frames' = Pop
                              /\ ret' = Returned(FALSE, frame)
                              /\ pc' = "return"
                              /\ UNCHANGED call
                         ELSE /\ call' = [artifact |-> ingredient, auto |-> TRUE]
                              /\ pc' = "call"
                              /\ UNCHANGED <<frames, stack, ret>>
                    ELSE /\ frames' = [frames EXCEPT ![Len(frames)].i = frame.i + 1]
                         /\ pc' = "check"
                         /\ UNCHANGED <<call, stack, ret>>
    /\ UNCHANGED <<costVars, recipes, heap, caller, artifact, allowAutocraft, totalCost,
                   craftedCount, attemptStart, simResult, optVars>>

\* Lines 518-522: a nested craftOne has returned to the while loop.
CraftOneResume ==
    /\ pc = "return"
    /\ frames # <<>>
    /\ IF ret.value
       THEN /\ pc' = "check"
            /\ UNCHANGED <<frames, stack, ret>>
       ELSE /\ stack' = stackDelete(stack, Top.artifact)
            /\ frames' = Pop
            /\ ret' = Returned(FALSE, Top)
            /\ pc' = "return"
    /\ UNCHANGED <<costVars, recipes, heap, caller, artifact, allowAutocraft, totalCost,
                   craftedCount, call, attemptStart, simResult, optVars>>

\* Lines 526-537: the deduction, the cost callback, the two increments,
\* stack.delete and the return of true.
CraftOneCraft ==
    /\ pc = "craft"
    /\ LET frame == Top
           recipe == RecipeOf(recipes, frame.artifact)
           deducted == DeductIngredients(simulationInventory, recipe.ingredients)
           craftCount == Get(simulationCraftCounts, frame.artifact)
           discountedCost == getDiscountedCost(recipe.cost, 2 * craftCount)
           withCount == [heap EXCEPT ![SimulationObjects.craftCounts] =
                            Put(heap[SimulationObjects.craftCounts],
                                frame.artifact, craftCount + 1)]
       IN  /\ totalCost' = onCost(totalCost, discountedCost)
           /\ heap' = [withCount EXCEPT ![SimulationObjects.inventory] =
                           WithCrafted(deducted, frame.artifact)]
           /\ stack' = stackDelete(stack, frame.artifact)
           /\ frames' = Pop
           /\ ret' = Returned(TRUE, frame)
           /\ pc' = "return"
    /\ UNCHANGED <<costVars, recipes, caller, artifact, allowAutocraft, craftedCount, call,
                   attemptStart, simResult, optVars>>

\* Lines 482-490: the while loop of simulateCraftMode after a craftOne
\* attempt: count it and try again, or return the count and the cost.
SimulateLoop ==
    /\ pc = "return"
    /\ frames = <<>>
    /\ IF ret.value
       THEN /\ craftedCount < MaxCrafts
            /\ craftedCount' = craftedCount + 1
            /\ call' = [artifact |-> artifact, auto |-> allowAutocraft]
            /\ stack' = {}
            /\ attemptStart' = simulationInventory
            /\ pc' = "call"
            /\ UNCHANGED simResult
       ELSE /\ simResult' = [outcome |-> "returned", count |-> craftedCount,
                             cost |-> totalCost]
            /\ pc' = "simulated"
            /\ UNCHANGED <<craftedCount, call, stack, attemptStart>>
    /\ UNCHANGED <<costVars, recipes, heap, caller, artifact, allowAutocraft, totalCost,
                   frames, ret, optVars>>

\* The locals of a simulation that is over are dropped, and its clones.
SimulationDropped ==
    /\ caller' = "none"
    /\ artifact' = ""
    /\ allowAutocraft' = FALSE
    /\ totalCost' = Num(0)
    /\ craftedCount' = 0
    /\ call' = NoCall
    /\ frames' = <<>>
    /\ stack' = {}
    /\ ret' = NoReturn
    /\ attemptStart' = EmptyMap
    /\ simResult' = NoResult

HeapWithoutClones ==
    [heap EXCEPT !["inventoryClone"] = EmptyMap,
                 !["craftCountsClone"] = EmptyMap,
                 !["projectedCraftCounts"] = EmptyMap]

\* The unit call is over.
SimulateEnd ==
    /\ pc = "simulated"
    /\ caller = "unit"
    /\ pc' = "idle"
    /\ heap' = HeapWithoutClones
    /\ SimulationDropped
    /\ UNCHANGED <<costVars, recipes, optVars>>

(***************************************************************************)
(* optimizeCrafts.                                                         *)
(***************************************************************************)
\* The problem built from the simulation's copy of the inventory.
ProblemObjectClone == "inventoryClone"

\* The object optimizeCrafts hands to getProblem: the caller's inventory.
ProblemObject == "inventory"

\* Lines 299-309: the problem is built and solved.  An exception of solve
\* leaves optimizeCrafts; a null answer makes solution.Columns a TypeError;
\* an answer without Columns makes the for-in loop run over nothing.
OptimizeCrafts ==
    /\ pc = "idle"
    /\ \E response \in Responses(recipes) :
          /\ problem' = getProblem(recipes, heap[ProblemObject])
          /\ solveCalls' = <<getProblem(recipes, heap[ProblemObject])>>
          /\ solution' = response
          /\ IF response.kind = "throws"
             THEN outcome' = "solver-error" /\ pc' = "optimized"
             ELSE IF response.kind = "null"
             THEN outcome' = "type-error" /\ pc' = "optimized"
             ELSE outcome' = "none" /\ pc' = "row"
    /\ column' = 1
    /\ row' = NoRow
    /\ result' = EmptyResult
    /\ UNCHANGED <<costVars, recipes, heap, simVars>>

\* Lines 310-317: the next column; for an artifact with a recipe the count,
\* the XP and the cost details.  The recursion of getRecursiveCraftCost
\* on an artifact whose expansion has a cycle exhausts the call stack.
OptimizeRow ==
    /\ pc = "row"
    /\ IF column > Len(solution.columns)
       THEN /\ outcome' = "returned"
            /\ pc' = "optimized"
            /\ UNCHANGED <<heap, column, row>>
       ELSE LET target == solution.columns[column].name
                count == solution.columns[column].primal
            IN  IF ~HasRecipe(recipes, target)
                THEN /\ column' = column + 1
                     /\ UNCHANGED <<heap, pc, row, outcome>>
                ELSE IF ReachesCycle(recipes, target)
                THEN /\ outcome' = "range-error"
                     /\ pc' = "optimized"
                     /\ UNCHANGED <<heap, column, row>>
                ELSE LET xpPerCraft == RecipeOf(recipes, target).xp
                         costDetails == getCostDetails(recipes, heap["craftCounts"],
                                                       target, count)
                         recursive == getRecursiveCraftCost(
                                          recipes, heap["craftCounts"], target)
                     IN  /\ heap' = [heap EXCEPT ![ProjectedObject] =
                                                     recursive.projected]
                         /\ row' = [NoRow EXCEPT
                                       !.artifact = target,
                                       !.count = count,
                                       !.xp = NumTimes(count, Num(xpPerCraft)),
                                       !.cost = costDetails.totalDirectCost,
                                       !.xpPerGe =
                                           XpPerGe(NumTimes(count, Num(xpPerCraft)),
                                                   costDetails.totalDirectCost),
                                       !.discountedCost = costDetails.discountedCost,
                                       !.discountPercent =
                                           costDetails.discountPercent,
                                       !.craftCount = costDetails.craftCount,
                                       !.ingredients = costDetails.ingredients,
                                       !.xpPerCraft = xpPerCraft,
                                       !.recursiveCost = recursive.cost]
                         /\ pc' = "compare"
                         /\ UNCHANGED <<column, outcome>>
    /\ UNCHANGED <<costVars, recipes, simVars, problem, solveCalls, solution, result>>

\* Line 444: getCraftModeComparison starts the direct simulation.
CompareDirect ==
    /\ pc = "compare"
    /\ SimulateStart("direct", row.artifact, FALSE)
    /\ UNCHANGED <<costVars, recipes, optVars>>

Metrics(simulated, xpPerCraft) ==
    [present |-> TRUE, count |-> simulated.count,
     xp |-> Num(simulated.count * xpPerCraft), cost |-> simulated.cost]

\* A WithRow that assigns the totals where the code adds to them.
WithRowOverwriting(solved, finished) ==
    [crafts |-> Append(solved.crafts, finished),
     totalXp |-> finished.xp,
     totalCost |-> finished.cost]

\* Lines 319-321: the row is stored and the totals are advanced.
WithRow(solved, finished) ==
    [crafts |-> Append(solved.crafts, finished),
     totalXp |-> NumAdd(solved.totalXp, finished.xp),
     totalCost |-> NumAdd(solved.totalCost, finished.cost)]

\* Lines 445-461: the direct simulation is over; the auto simulation runs
\* if an ingredient of the recipe is craftable, else auto is null and the
\* row is stored.
CompareAuto ==
    /\ pc = "simulated"
    /\ caller = "direct"
    /\ IF simResult.outcome = "cycle"
       THEN /\ outcome' = "cycle-error"
            /\ pc' = "optimized"
            /\ heap' = HeapWithoutClones
            /\ SimulationDropped
            /\ UNCHANGED <<column, row, result>>
       ELSE LET direct == Metrics(simResult, row.xpPerCraft)
            IN  IF CraftableIngredients(recipes, row.artifact) = {}
                THEN /\ result' = WithRow(result, [row EXCEPT !.direct = direct])
                     /\ row' = NoRow
                     /\ column' = column + 1
                     /\ pc' = "row"
                     /\ heap' = HeapWithoutClones
                     /\ SimulationDropped
                     /\ UNCHANGED outcome
                ELSE /\ row' = [row EXCEPT !.direct = direct]
                     /\ SimulateStart("auto", row.artifact, TRUE)
                     /\ UNCHANGED <<column, result, outcome>>
    /\ UNCHANGED <<costVars, recipes, problem, solveCalls, solution>>

\* Lines 461-468 and 319-321: the auto simulation is over; the row is stored.
CompareEnd ==
    /\ pc = "simulated"
    /\ caller = "auto"
    /\ IF simResult.outcome = "cycle"
       THEN /\ outcome' = "cycle-error"
            /\ pc' = "optimized"
            /\ UNCHANGED <<column, row, result>>
       ELSE /\ result' = WithRow(result,
                                 [row EXCEPT !.auto = Metrics(simResult, row.xpPerCraft)])
            /\ row' = NoRow
            /\ column' = column + 1
            /\ pc' = "row"
            /\ UNCHANGED outcome
    /\ heap' = HeapWithoutClones
    /\ SimulationDropped
    /\ UNCHANGED <<costVars, recipes, problem, solveCalls, solution>>

\* optimizeCrafts is over: its locals are dropped.
OptimizeEnd ==
    /\ pc = "optimized"
    /\ pc' = "idle"
    /\ problem' = <<>>
    /\ solveCalls' = <<>>
    /\ solution' = NoSolution
    /\ column' = 0
    /\ row' = NoRow
    /\ result' = EmptyResult
    /\ outcome' = "none"
    /\ heap' = HeapWithoutClones
    /\ UNCHANGED <<costVars, recipes, simVars>>

Next ==
    \/ Simulate
    \/ CraftOneEnter
    \/ CraftOneCheck
    \/ CraftOneResume
    \/ CraftOneCraft
    \/ SimulateLoop
    \/ SimulateEnd
    \/ OptimizeCrafts
    \/ OptimizeRow
    \/ CompareDirect
    \/ CompareAuto
    \/ CompareEnd
    \/ OptimizeEnd

Spec == Init /\ [][Next]_vars

(***************************************************************************)
(* The cost functions called by themselves: getBatchDirectCost on a batch  *)
(* and on the two parts the batch splits into.                             *)
(***************************************************************************)
\* Base costs: negative, zero, not a multiple of 10, a multiple of 10.
BaseCosts == {-5, 0, 7, 100}

\* Craft counts a batch starts at, in halves: negative, none, fractional,
\* small, and around the 300 crafts at which the discount saturates.
StartCounts == {-2, 0, 1, 2, 3, 596, 598, 600, 604}

Queries ==
    [baseCost : BaseCosts, start : StartCounts,
     first : 0..MaxBatch, second : 0..MaxBatch]

CostInit ==
    /\ recipes = CatalogSingle
    /\ heap = [inventory |-> EmptyMap, craftCounts |-> EmptyMap,
               inventoryClone |-> EmptyMap, craftCountsClone |-> EmptyMap,
               projectedCraftCounts |-> EmptyMap]
    /\ pc = "idle"
    /\ SimIdle
    /\ OptIdle
    /\ query \in Queries
    /\ answer = NoAnswer

\* getBatchDirectCost for the whole batch and for its two parts, the second
\* part starting where the first ends.
BatchDirectCost ==
    /\ ~answer.done
    /\ answer' =
          [done |-> TRUE,
           whole |-> getBatchDirectCost(query.baseCost, query.start,
                                        Num(query.first + query.second)),
           first |-> getBatchDirectCost(query.baseCost, query.start, Num(query.first)),
           second |-> getBatchDirectCost(query.baseCost,
                                         query.start + 2 * query.first,
                                         Num(query.second))]
    /\ UNCHANGED <<query, recipes, heap, pc, simVars, optVars>>

CostNext == BatchDirectCost

CostSpec == CostInit /\ [][CostNext]_vars

(***************************************************************************)
(* getDiscountedCost called by itself, at two craft counts of one base     *)
(* cost.                                                                   *)
(***************************************************************************)
\* Base costs in halves: negative, zero, a range of whole and fractional
\* costs, and a multiple of 10 with its fractional neighbour.
DiscountCosts == (-2..MaxCostHalves) \cup {200, 201}

\* Craft counts in halves: negative, a range from no history on, and the
\* counts around the 300 crafts at which the discount saturates.
DiscountHistories == {-2} \cup (0..MaxHistory) \cup (597..603)

DiscountQueries ==
    [baseCost : DiscountCosts, start : DiscountHistories, later : DiscountHistories]

DiscountInit ==
    /\ recipes = CatalogSingle
    /\ heap = [inventory |-> EmptyMap, craftCounts |-> EmptyMap,
               inventoryClone |-> EmptyMap, craftCountsClone |-> EmptyMap,
               projectedCraftCounts |-> EmptyMap]
    /\ pc = "idle"
    /\ SimIdle
    /\ OptIdle
    /\ query \in DiscountQueries
    /\ answer = [done |-> FALSE, unit |-> Discount(0, 0), later |-> Discount(0, 0)]

\* getDiscountedCost of the base cost at the two craft counts.
DiscountedCost ==
    /\ ~answer.done
    /\ answer' = [done |-> TRUE,
                  unit |-> Discount(query.baseCost, query.start),
                  later |-> Discount(query.baseCost, query.later)]
    /\ UNCHANGED <<query, recipes, heap, pc, simVars, optVars>>

DiscountNext == DiscountedCost

DiscountSpec == DiscountInit /\ [][DiscountNext]_vars

(***************************************************************************)
(* getRecursiveCost called by itself on an acyclic catalog.                *)
(***************************************************************************)
\* B is reached from A and from C, two units each time.
CatalogBatches ==
    <<Recipe("A", 10, 6, <<<<"B", 2>>, <<"C", 1>>>>),
      Recipe("B", 2, 3, <<<<"raw", 1>>>>),
      Recipe("C", 4, 5, <<<<"B", 2>>, <<"raw", 3>>>>)>>

\* Whether the ingredient graph of a catalog of the model has no cycle.
Acyclic == [catalog \in Catalogs |-> ~Cyclic(catalog)]

\* The catalogs whose ingredient graph has no cycle.
AcyclicCatalogs == {catalog \in Catalogs : Acyclic[catalog]}

RecursiveCatalogs == AcyclicCatalogs \cup {CatalogBatches}

\* The craft counts of the engine's callers, whole histories of B, and a
\* history of B two crafts short of the saturation.
RecursiveHistories ==
    CraftCountChoices
        \cup {MapOf(<<<<"B", 2 * n>>>>) : n \in 1..MaxBatch}
        \cup {MapOf(<<<<"B", 2 * (MAX_CRAFT_COUNT_FOR_DISCOUNT - 2)>>, <<"C", 2>>>>)}

RecursiveInit ==
    /\ recipes \in RecursiveCatalogs
    /\ \E craftCounts \in RecursiveHistories :
          heap = [inventory |-> EmptyMap, craftCounts |-> craftCounts,
                  inventoryClone |-> EmptyMap, craftCountsClone |-> EmptyMap,
                  projectedCraftCounts |-> EmptyMap]
    /\ pc = "idle"
    /\ SimIdle
    /\ OptIdle
    /\ query \in {[artifact |-> name] : name \in NamesOf(recipes)}
    /\ answer = [done |-> FALSE, cost |-> Num(0)]

\* getRecursiveCost(recipes, craftCounts, artifact): the recursion runs on
\* the spread copy of the craft counts.
getRecursiveCost ==
    /\ ~answer.done
    /\ LET recursive == getRecursiveCraftCost(recipes, heap["craftCounts"],
                                              query.artifact)
       IN  /\ heap' = [heap EXCEPT ![ProjectedObject] = recursive.projected]
           /\ answer' = [done |-> TRUE, cost |-> recursive.cost]
    /\ UNCHANGED <<query, recipes, pc, simVars, optVars>>

RecursiveNext == getRecursiveCost

RecursiveSpec == RecursiveInit /\ [][RecursiveNext]_vars

(***************************************************************************)
(* The claims.                                                             *)
(***************************************************************************)
\* A craftOne call has just returned (to its caller's next step).
JustReturned == pc = "return"

\* The top-level craftOne call of the simulation has just returned.
AttemptOver == pc = "return" /\ frames = <<>>

\* Some ingredient of the artifact was below its required quantity when the
\* call that just returned was entered.
ShortAtEntry ==
    LET ingredients == RecipeOf(recipes, ret.artifact).ingredients
    IN  \E j \in 1..Len(ingredients) :
            Get(ret.entryInventory, ingredients[j][1]) < ingredients[j][2]

\* The simulation state is what it was when the call that just returned was
\* entered.
UnchangedSinceEntry ==
    /\ simulationInventory = ret.entryInventory
    /\ simulationCraftCounts = ret.entryCraftCounts

\* C1: a craftOne call with allowAutocraft = false on a known artifact with
\* an ingredient below its required quantity returns false and leaves the
\* inventory map and the craft-count map as they were before the call.
C1_DirectShortageFails ==
    (JustReturned /\ ~ret.auto /\ HasRecipe(recipes, ret.artifact) /\ ShortAtEntry)
        => (~ret.value /\ UnchangedSinceEntry)

\* A direct call on a known artifact failed on a shortage, with other
\* ingredients on hand.
C1_Witness ==
    /\ JustReturned /\ ~ret.auto /\ ~ret.value
    /\ HasRecipe(recipes, ret.artifact) /\ ShortAtEntry
    /\ \E k \in DOMAIN ret.entryInventory : ret.entryInventory[k] > 0

\* C2 (as claimed): every craftOne call that returns false, in either
\* policy, leaves inventory and craft counts unchanged and has charged no
\* cost.
C2_FailedAttemptLeavesNoTrace ==
    (JustReturned /\ ~ret.value)
        => (UnchangedSinceEntry /\ totalCost = ret.entryCost)

\* The first top-level craftOne(A) of a simulation of the catalog
\* { A: { B: 1 }, B: { A: 1 } } from an empty inventory is running or over.
CycleFromEmpty ==
    /\ recipes = CatalogCycle
    /\ artifact = "A"
    /\ craftedCount = 0
    /\ attemptStart = EmptyMap

\* C3 (as claimed): crafting A from an empty inventory in that catalog
\* never returns a boolean, whatever allowAutocraft is.
C3_CycleErrorInEveryMode == ~(CycleFromEmpty /\ AttemptOver)

\* C3 (amended): with allowAutocraft = true the call raises the cycle
\* error after a bounded recursion and returns no boolean; with
\* allowAutocraft = false it does not recurse and returns false, and
\* simulateCraftMode returns a count of 0.
C3_CycleErrorInAutoMode ==
    CycleFromEmpty =>
        /\ Len(frames) <= 2
        /\ allowAutocraft =>
              /\ ~AttemptOver
              /\ pc = "simulated" => simResult.outcome = "cycle"
        /\ ~allowAutocraft =>
              /\ Len(frames) <= 1
              /\ AttemptOver => ~ret.value
              /\ pc = "simulated" =>
                    simResult.outcome = "returned" /\ simResult.count = 0

\* The cycle error has been raised in auto mode.
C3_Witness ==
    /\ CycleFromEmpty /\ allowAutocraft
    /\ pc = "simulated" /\ simResult.outcome = "cycle"

\* A top-level attempt has succeeded and left the simulation in an
\* inventory from which the same attempt succeeds again, for ever: the
\* inventory it started from (the steps of craftOne depend on the catalog,
\* the policy and the inventory alone), or, in direct mode, an inventory
\* with at least as much of everything (a direct attempt succeeds when
\* every ingredient is on hand and always changes the inventory by the same
\* amounts).
AttemptRepeatsForEver ==
    /\ AttemptOver
    /\ ret.value
    /\ \/ simulationInventory = attemptStart
       \/ /\ ~allowAutocraft
          /\ \A k \in DOMAIN attemptStart :
                Get(simulationInventory, k) >= attemptStart[k]

\* C4 (as claimed): with a cycle in the catalog, simulateCraftMode stops
\* after finitely many attempts from every starting inventory; so no
\* attempt of it repeats for ever.
C4_CyclicSimulationStops == Cyclic(recipes) => ~AttemptRepeatsForEver

\* C5 (as claimed): with an acyclic catalog, simulateCraftMode stops in
\* both policies from every starting inventory; so no attempt of it
\* repeats for ever.
C5_AcyclicSimulationStops == ~Cyclic(recipes) => ~AttemptRepeatsForEver

\* C6: when both simulations of an artifact with a craftable ingredient
\* return, the count with allowAutocraft = true is at least the count with
\* allowAutocraft = false from the same starting state.
C6_AutoCountAtLeastDirect ==
    /\ (pc = "simulated" /\ caller = "auto" /\ simResult.outcome = "returned")
          => simResult.count >= row.direct.count
    /\ \A i \in 1..Len(result.crafts) :
          result.crafts[i].auto.present
              => result.crafts[i].auto.count >= result.crafts[i].direct.count

\* A row whose auto count exceeds a direct count that is not 0.
C6_Witness ==
    \E i \in 1..Len(result.crafts) :
        /\ result.crafts[i].auto.present
        /\ result.crafts[i].direct.count > 0
        /\ result.crafts[i].auto.count > result.crafts[i].direct.count

\* C7: no step of optimizeCrafts, of a simulation or of the recursive cost
\* changes a key or a value of the caller's inventory and craft-count maps.
C7_CallerMapsUntouched ==
    [][/\ heap'["inventory"] = heap["inventory"]
       /\ heap'["craftCounts"] = heap["craftCounts"]]_vars

\* The auto simulation of a row is over: the recursive cost has advanced
\* its projected copy and the simulation has changed its clones.
C7_Witness ==
    /\ pc = "simulated" /\ caller = "auto"
    /\ heap["projectedCraftCounts"] # heap["craftCounts"]
    /\ simulationInventory # cloneCountMap(heap["inventory"])
    /\ simulationCraftCounts # cloneCountMap(heap["craftCounts"])

\* The answer of the solver has no Columns, or a negative or NaN count.
BadAnswer ==
    \/ solution.kind = "no-columns"
    \/ /\ solution.kind = "columns"
       /\ \E i \in 1..Len(solution.columns) :
             solution.columns[i].primal.nan \/ solution.columns[i].primal.v < 0

\* C8 (as claimed): on such an answer optimizeCrafts ends with an error and
\* returns no Solution.
C8_BadAnswerIsAnError ==
    (pc = "optimized" /\ BadAnswer) => outcome # "returned"

\* The artifacts that are an ingredient of at least one recipe.
UsedAsIngredient ==
    {n \in NamesOf(recipes) :
        \E i \in 1..Len(recipes) :
            recipes[i].craftable /\ InIngredients(recipes[i], n)}

\* The constraint lines of the problem text.
ConstraintLines ==
    {i \in 1..Len(problem) :
        problem[i].section = "Subject To" /\ problem[i].name # ""}

\* C9 (as claimed): the problem text holds exactly one constraint line for
\* every artifact that is an ingredient of a recipe, key of the catalog or
\* not, and none for any other artifact.
C9_ConstraintForEveryIngredient ==
    problem # <<>> =>
        /\ \A n \in UsedAsIngredient :
              Cardinality({i \in ConstraintLines : problem[i].name = n}) = 1
        /\ \A i \in ConstraintLines : problem[i].name \in UsedAsIngredient

\* The assignments of whole values up to MaxAssign to the variables.
Assignments == [KeySet(recipes) -> 0..MaxAssign]

\* The left side of a constraint under an assignment.
RECURSIVE UsedValue(_, _)
UsedValue(used, x) ==
    IF used = <<>> THEN 0
    ELSE used[1][1] * x[used[1][2]] + UsedValue(Tail(used), x)

\* The inequality the constraint states holds under the assignment (the
\* right side is in halves).
Satisfies(constraint, x) ==
    2 * (UsedValue(constraint.used, x)
         - (IF constraint.subtract THEN x[constraint.name] ELSE 0))
        <= constraint.available

\* The units of `n` that the crafts of an assignment consume, in the
\* recipes from position i on.
RECURSIVE ConsumptionFrom(_, _, _)
ConsumptionFrom(n, x, i) ==
    IF i > Len(recipes) THEN 0
    ELSE (IF recipes[i].craftable /\ InIngredients(recipes[i], n)
          THEN QuantityOf(recipes[i], n) * x[recipes[i].name]
          ELSE 0)
         + ConsumptionFrom(n, x, i + 1)

Consumption(n, x) == ConsumptionFrom(n, x, 1)

\* C10: each emitted constraint line is the rendering of: the sum of
\* quantity x parent over every recipe listing the artifact, `- artifact`
\* exactly when it has a recipe, `<=` inventory[artifact] or 0; and an
\* assignment satisfies it exactly when the consumption of the artifact is
\* at most the units on hand plus the units of it crafted.
C10_ConstraintIsResourceBalance ==
    (pc = "row" /\ column = 1) =>
        \A i \in ConstraintLines :
            LET n == problem[i].name
                constraint == getConstraint(recipes, heap["inventory"], n)
                onHand == IF n \in DOMAIN heap["inventory"]
                          THEN heap["inventory"][n] ELSE 0
            IN  /\ problem[i].text = "  c_" \o n \o ": " \o ConstraintText(constraint)
                /\ {constraint.used[j] : j \in 1..Len(constraint.used)}
                     = {<<QuantityOf(recipes[k], n), recipes[k].name>> :
                           k \in {k \in 1..Len(recipes) :
                                     recipes[k].craftable
                                     /\ InIngredients(recipes[k], n)}}
                /\ constraint.subtract = HasRecipe(recipes, n)
                /\ constraint.available = onHand
                /\ \A x \in Assignments :
                      Satisfies(constraint, x)
                          <=> 2 * Consumption(n, x)
                                <= onHand + 2 * (IF HasRecipe(recipes, n)
                                                 THEN x[n] ELSE 0)

\* The constraint of a craftable artifact with two parents and units on hand
\* has been emitted.
C10_Witness ==
    /\ pc = "row" /\ column = 1
    /\ \E i \in ConstraintLines :
          LET constraint == getConstraint(recipes, heap["inventory"], problem[i].name)
          IN  /\ Len(constraint.used) >= 2
              /\ constraint.subtract
              /\ constraint.available > 0
\* The sequences that list every element of a set exactly once.
Orderings(S) ==
    {s \in [1..Cardinality(S) -> S] : \A i, j \in 1..Cardinality(S) : s[i] = s[j] => i = j}

\* The keys of the catalog that have a recipe.
CraftableKeys == {recipes[i].name : i \in {k \in 1..Len(recipes) : recipes[k].craftable}}

\* The objective line of the problem text.
ObjectiveLine == problem[2]

\* C11: the objective line is `obj:` followed by the monomials
\* `<recipe.xp> <artifact>` of exactly the craftable artifacts of the catalog,
\* each once, joined by ` + `; for the catalog { A: xp 10 } it is `obj: 10 A`.
C11_ObjectiveOverCraftable ==
    problem # <<>> =>
        /\ ObjectiveLine.section = "Maximize"
        /\ \E order \in Orderings(CraftableKeys) :
              ObjectiveLine.text =
                  "  obj: " \o Join([i \in 1..Len(order) |->
                                        ToString(recipes[CHOOSE k \in 1..Len(recipes) :
                                                     recipes[k].name = order[i]].xp)
                                        \o " " \o order[i]],
                                    " + ")
        /\ recipes = CatalogSingle => ObjectiveLine.text = "  obj: 10 A"

\* The problem of a catalog with two recipes and a key without recipe has
\* been built.
C11_Witness ==
    /\ problem # <<>>
    /\ Cardinality(CraftableKeys) >= 2
    /\ KeySet(recipes) # CraftableKeys

\* The catalogs holding the entries of `catalog` in every insertion order.
Reorderings(catalog) ==
    {[i \in 1..Len(catalog) |-> catalog[order[i]]] :
        order \in Orderings(1..Len(catalog))}

\* C12 (as claimed): the parent monomials of every constraint are in sorted
\* order, and the problem text is the same for every insertion order of the
\* entries of the catalog.
C12_ProblemTextIgnoresKeyOrder ==
    problem # <<>> =>
        /\ \A n \in KeySet(recipes) :
              LET used == getConstraint(recipes, heap["inventory"], n).used
                  parents == [i \in 1..Len(used) |-> used[i][2]]
              IN  parents = Sorted(parents)
        /\ \A catalog \in Reorderings(recipes) :
              getProblem(catalog, heap["inventory"]) = problem

\* The sections of the problem text, in the order of the format.
SectionOrder == <<"Maximize", "Subject To", "Bounds", "General", "End">>

SectionIndex(section) == CHOOSE k \in 1..Len(SectionOrder) : SectionOrder[k] = section

\* The variables that occur in the objective or in a constraint.
ProblemVariables ==
    CraftableKeys
    \cup UNION {LET constraint == getConstraint(recipes, heap["inventory"], problem[i].name)
                IN  {constraint.used[j][2] : j \in 1..Len(constraint.used)}
                    \cup (IF constraint.subtract THEN {constraint.name} ELSE {}) :
                i \in ConstraintLines}

\* C13: the lines of the problem text run through the sections Maximize,
\* Subject To, Bounds, General, End in that order, each opened by its
\* keyword once; every variable of the objective or of a constraint has
\* exactly one line `<name> >= 0` under Bounds and is listed exactly once in
\* the integer-declaration line.
C13_SectionsBoundsIntegers ==
    (pc = "row" /\ column = 1) =>
        /\ \A i \in 1..(Len(problem) - 1) :
              SectionIndex(problem[i].section) <= SectionIndex(problem[i + 1].section)
        /\ \A k \in 1..Len(SectionOrder) :
              /\ Cardinality({i \in 1..Len(problem) : problem[i].text = SectionOrder[k]}) = 1
              /\ \E i \in 1..Len(problem) :
                    /\ problem[i].text = SectionOrder[k]
                    /\ problem[i].section = SectionOrder[k]
                    /\ i > 1 => problem[i - 1].section # SectionOrder[k]
        /\ \A v \in ProblemVariables :
              Cardinality({i \in 1..Len(problem) :
                              /\ problem[i].section = "Bounds"
                              /\ problem[i].text = "  " \o v \o " >= 0"}) = 1
        /\ \E listed \in SUBSET NamesOf(recipes) :
              /\ ProblemVariables \subseteq listed
              /\ \E order \in Orderings(listed) :
                    /\ Cardinality({i \in 1..Len(problem) :
                                       /\ problem[i].section = "General"
                                       /\ problem[i].text = "  " \o Join(order, " ")}) = 1
                    /\ Cardinality({i \in 1..Len(problem) :
                                       problem[i].section = "General"}) = 2

\* A problem with constraint lines over several variables has been built.
C13_Witness ==
    /\ pc = "row" /\ column = 1
    /\ Cardinality(ProblemVariables) >= 3
    /\ Cardinality(ConstraintLines) >= 2

\* The rows computed so far: the stored ones and the one in the making.
ReportedRows ==
    {result.crafts[i] : i \in 1..Len(result.crafts)}
    \cup (IF row.artifact # "" THEN {row} ELSE {})

\* The count the solver gave for an artifact.
SolvedCount(name) ==
    solution.columns[CHOOSE i \in 1..Len(solution.columns) :
                         solution.columns[i].name = name].primal

\* The cost of n crafts in sequence, the first of them at craft count `start`
\* (in halves): the cost of the first n - 1 and the unit cost of the n-th.
RECURSIVE CostOfCrafts(_, _, _)
CostOfCrafts(baseCost, start, n) ==
    IF n <= 0 THEN Num(0)
    ELSE NumAdd(CostOfCrafts(baseCost, start, n - 1),
                getDiscountedCost(baseCost, start + 2 * (n - 1)))

RECURSIVE SumOfRows(_, _)
SumOfRows(rows, field) ==
    IF rows = <<>> THEN Num(0)
    ELSE NumAdd(SumOfRows(SubSeq(rows, 1, Len(rows) - 1), field),
                rows[Len(rows)][field])

\* The columns of the solver's answer the loop has dealt with.
ColumnsDone == SubSeq(solution.columns, 1, Min2(Len(solution.columns), Max2(0, column - 1)))

\* C15: the totals are the sums of xp and of cost over the reported rows;
\* the rows are those of the columns with a recipe, a column without recipe
\* adding no row; and when every solved count is 0 the returned totals are 0.
C15_TotalsAreSumsOfRows ==
    /\ result.totalXp = SumOfRows(result.crafts, "xp")
    /\ result.totalCost = SumOfRows(result.crafts, "cost")
    /\ [i \in 1..Len(result.crafts) |-> result.crafts[i].artifact]
         = SelectSeq([i \in 1..Len(ColumnsDone) |-> ColumnsDone[i].name],
                     LAMBDA n : \E k \in 1..Len(recipes) :
                                    recipes[k].name = n /\ recipes[k].craftable)
    /\ (/\ pc = "optimized" /\ outcome = "returned"
        /\ \A i \in 1..Len(solution.columns) : solution.columns[i].primal = Num(0))
          => result.totalXp = Num(0) /\ result.totalCost = Num(0)

\* A Solution of several rows has been returned for an answer with a column
\* that has no recipe.
C15_Witness ==
    /\ pc = "optimized" /\ outcome = "returned"
    /\ Len(result.crafts) >= 2
    /\ Len(solution.columns) > Len(result.crafts)
    /\ NumPositive(result.totalXp) /\ NumPositive(result.totalCost)
    /\ result.totalXp # result.crafts[Len(result.crafts)].xp

\* C16 (as claimed): in a returned Solution the cost of every row is
\* count x recipe cost.
C16_CostIsCountTimesRecipeCost ==
    (pc = "optimized" /\ outcome = "returned") =>
        \A i \in 1..Len(result.crafts) :
            LET r == result.crafts[i]
            IN  (~r.count.nan /\ r.count.v >= 0) =>
                    r.cost = Num(r.count.v * RecipeOf(recipes, r.artifact).cost)

\* Some ingredient of the recipe of `name` has a recipe of its own.
HasCraftableIngredient(name) ==
    \E k \in 1..Len(recipes) :
        /\ recipes[k].name = name /\ recipes[k].craftable
        /\ \E j \in 1..Len(recipes[k].ingredients) :
              \E m \in 1..Len(recipes) :
                  /\ recipes[m].name = recipes[k].ingredients[j][1]
                  /\ recipes[m].craftable

\* A simulation of the mode comparison is at its first craftOne call.
ComparisonSimulationStarts ==
    /\ caller \in {"direct", "auto"}
    /\ pc = "call" /\ frames = <<>> /\ craftedCount = 0 /\ ret = NoReturn

\* The metrics of the simulation that is over, as a row reports them.
SimulatedMetrics(metrics) ==
    /\ pc = "simulated" /\ simResult.outcome = "returned"
    /\ metrics.present
    /\ metrics.count = simResult.count
    /\ metrics.cost = simResult.cost
    /\ metrics.xp = Num(simResult.count * row.xpPerCraft)

\* C17: in every row the direct metrics are present and the auto metrics
\* are null exactly when no ingredient of the recipe has a recipe; both
\* simulations start from the normalised copies of the caller's inventory
\* and craft history, the auto one with allowAutocraft = true, and the
\* metrics stored are the results of those simulations.
C17_AutoNullIffNoCraftableIngredient ==
    /\ [](/\ \A i \in 1..Len(result.crafts) :
                /\ result.crafts[i].direct.present
                /\ result.crafts[i].auto.present
                      <=> HasCraftableIngredient(result.crafts[i].artifact)
          /\ ComparisonSimulationStarts =>
                /\ allowAutocraft = (caller = "auto")
                /\ artifact = row.artifact
                /\ totalCost = Num(0)
                /\ simulationInventory = cloneCountMap(heap["inventory"])
                /\ simulationCraftCounts = cloneCountMap(heap["craftCounts"]))
    /\ [][/\ (caller = "direct" /\ caller' = "auto") => SimulatedMetrics(row'.direct)
          /\ Len(result'.crafts) = Len(result.crafts) + 1 =>
                LET stored == result'.crafts[Len(result'.crafts)]
                IN  IF caller = "auto"
                    THEN SimulatedMetrics(stored.auto) /\ stored.direct = row.direct
                    ELSE caller = "direct" /\ SimulatedMetrics(stored.direct)]_vars

\* A Solution with a row that has auto metrics different from its direct
\* metrics and a row whose auto metrics are null.
C17_Witness ==
    /\ pc = "optimized" /\ outcome = "returned"
    /\ \E i \in 1..Len(result.crafts) :
          /\ result.crafts[i].auto.present
          /\ result.crafts[i].auto.count > result.crafts[i].direct.count
    /\ \E i \in 1..Len(result.crafts) : ~result.crafts[i].auto.present

\* The whole units of `name` on hand when a simulation starts.
OnHandAtStart(name) ==
    IF name \in DOMAIN heap["inventory"]
    THEN Max2(0, (heap["inventory"][name] + 1) \div 2)
    ELSE 0

\* The crafts the ingredients on hand are enough for: the least quotient of
\* on-hand quantity by required quantity.
CraftsOnHand(ingredients) ==
    LET quotients == {OnHandAtStart(ingredients[j][1]) \div ingredients[j][2] :
                         j \in {k \in 1..Len(ingredients) : ingredients[k][2] > 0}}
    IN  CHOOSE least \in quotients : \A q \in quotients : least <= q

\* A direct simulation of an artifact with a recipe has returned.
DirectSimulationOver ==
    /\ pc = "simulated" /\ ~allowAutocraft /\ simResult.outcome = "returned"
    /\ \E k \in 1..Len(recipes) : recipes[k].name = artifact /\ recipes[k].craftable

\* C18: for a target that is not its own ingredient and has an ingredient
\* of positive required quantity, the count of the direct simulation is the
\* minimum over those ingredients of floor(on hand / required); with recipe
\* { raw: 2 } and inventory { raw: 10 } it is 5.
C18_DirectCountIsMinQuotient ==
    DirectSimulationOver =>
        LET ingredients == RecipeOf(recipes, artifact).ingredients
        IN  /\ (/\ \A j \in 1..Len(ingredients) : ingredients[j][1] # artifact
                /\ \E j \in 1..Len(ingredients) : ingredients[j][2] > 0)
                  => simResult.count = CraftsOnHand(ingredients)
            /\ (recipes = CatalogRawTwo /\ heap["inventory"] = MapOf(<<<<"raw", 20>>>>))
                  => simResult.count = 5

\* The direct simulation of recipe { raw: 2 } from inventory { raw: 10 } has
\* returned.
C18_Witness ==
    /\ DirectSimulationOver
    /\ recipes = CatalogRawTwo
    /\ heap["inventory"] = MapOf(<<<<"raw", 20>>>>)
    /\ simResult.count = 5

\* C19: for baseCost > 0 the batch cost is the sum of the unit costs at
\* craft counts start, start + 1, ..., start + quantity - 1; it is 0 when
\* the quantity is 0 or baseCost <= 0; and the cost of a batch of m + n is
\* the cost of m from start plus the cost of n from start + m.
C19_BatchCostIsSumOfUnitCosts ==
    answer.done =>
        /\ query.baseCost > 0 =>
              answer.whole = CostOfCrafts(query.baseCost, query.start,
                                          query.first + query.second)
        /\ (query.first + query.second = 0 \/ query.baseCost <= 0)
              => answer.whole = Num(0)
        /\ answer.whole = NumAdd(answer.first, answer.second)

\* A batch of two non-empty parts whose later crafts cost less than the
\* first.
C19_Witness ==
    /\ answer.done
    /\ query.baseCost > 0 /\ query.first >= 1 /\ query.second >= 2
    /\ NumPositive(answer.second)
    /\ answer.whole.v < (query.first + query.second) * answer.first.v

\* C20: for an artifact whose recipe has no ingredients, or only
\* ingredients without a recipe, the recursive cost is the discounted unit
\* cost at the artifact's craft history, the value reported as its current
\* discounted cost.
C20_LeafRecursiveCostIsUnitCost ==
    \A r \in ReportedRows :
        ~HasCraftableIngredient(r.artifact) =>
            /\ r.recursiveCost =
                   getDiscountedCost(RecipeOf(recipes, r.artifact).cost,
                                     IF r.artifact \in DOMAIN heap["craftCounts"]
                                     THEN heap["craftCounts"][r.artifact] ELSE 0)
            /\ r.recursiveCost = r.discountedCost

\* The row of an artifact crafted before, with ingredients none of which has
\* a recipe, and a recursive cost below the base cost.
C20_Witness ==
    \E r \in ReportedRows :
        /\ ~HasCraftableIngredient(r.artifact)
        /\ RecipeOf(recipes, r.artifact).ingredients # <<>>
        /\ r.artifact \in DOMAIN heap["craftCounts"]
        /\ heap["craftCounts"][r.artifact] > 0
        /\ ~r.recursiveCost.nan
        /\ r.recursiveCost.v < RecipeOf(recipes, r.artifact).cost

\* C21 (as claimed): for every baseCost > 0 the discount at craft count 0
\* returns unit cost baseCost and discount fraction 0; for every
\* baseCost <= 0 and any history it returns (0, 0).
C21_NoHistoryNoDiscount ==
    answer.done =>
        /\ (query.baseCost > 0 /\ query.start = 0) =>
              /\ 2 * answer.unit.discountedCost.v = query.baseCost
              /\ answer.unit.discountPercent.num = 0
        /\ query.baseCost <= 0 =>
              /\ answer.unit.discountedCost = Num(0)
              /\ answer.unit.discountPercent.num = 0 /\ ~answer.unit.discountPercent.nan

\* C21 (amended): for every whole baseCost > 0 the discount at craft count 0
\* returns (baseCost, 0); for a fractional baseCost > 0 it returns the floor
\* of baseCost and the fraction 1 - floor(baseCost) / baseCost; for every
\* baseCost <= 0 and any history it returns (0, 0).
C21_NoHistoryFloorOfBaseCost ==
    answer.done =>
        /\ (query.baseCost > 0 /\ query.start = 0) =>
              /\ ~answer.unit.discountedCost.nan /\ ~answer.unit.discountPercent.nan
              /\ answer.unit.discountedCost.v = query.baseCost \div 2
              /\ answer.unit.discountPercent.num * query.baseCost
                    = (query.baseCost - 2 * (query.baseCost \div 2))
                      * answer.unit.discountPercent.den
              /\ query.baseCost % 2 = 0 =>
                    /\ 2 * answer.unit.discountedCost.v = query.baseCost
                    /\ answer.unit.discountPercent.num = 0
        /\ query.baseCost <= 0 =>
              /\ answer.unit.discountedCost = Num(0)
              /\ answer.unit.discountPercent.num = 0 /\ ~answer.unit.discountPercent.nan

\* The discount of a whole base cost without history has been computed.
C21_Witness ==
    /\ answer.done
    /\ query.baseCost >= 20 /\ query.baseCost % 2 = 0 /\ query.start = 0
    /\ 2 * answer.unit.discountedCost.v = query.baseCost

\* C22: for craft counts 0 <= m <= n the unit cost at n is at most the unit
\* cost at m, every unit cost lies within 0..baseCost, and from 300 crafts
\* on the unit cost is the same at every craft count.
C22_DiscountNeverRises ==
    (answer.done /\ 0 <= query.start /\ query.start <= query.later) =>
        /\ ~answer.unit.discountedCost.nan /\ ~answer.later.discountedCost.nan
        /\ answer.later.discountedCost.v <= answer.unit.discountedCost.v
        /\ 0 <= answer.later.discountedCost.v
        /\ 2 * answer.unit.discountedCost.v <= Max2(0, query.baseCost)
        /\ query.start >= 600 =>
              answer.later.discountedCost = answer.unit.discountedCost

\* The unit cost has fallen between two craft counts below 300, the earlier
\* of which had a discount already.
C22_Witness ==
    /\ answer.done
    /\ 0 < query.start /\ query.start < query.later /\ query.later < 600
    /\ 2 * answer.unit.discountedCost.v < query.baseCost
    /\ answer.later.discountedCost.v < answer.unit.discountedCost.v
    /\ answer.later.discountedCost.v > 0

\* The craft counts as the simulations read them: every value rounded and
\* floored at 0.
NormalizedHistory == [key \in DOMAIN heap["craftCounts"] |->
                         2 * cloneCountMap(heap["craftCounts"])[key]]

\* C23: the cost details of a row (discounted unit cost, batch direct cost,
\* recursive cost, ingredient breakdown) are those of the craft history
\* rounded and floored at 0, the history the simulations start from.
C23_CostDetailsFromNormalizedHistory ==
    pc = "compare" =>
        LET details == getCostDetails(recipes, NormalizedHistory,
                                      row.artifact, row.count)
        IN  /\ row.discountedCost = details.discountedCost
            /\ row.cost = details.totalDirectCost
            /\ row.recursiveCost =
                  getRecursiveCraftCost(recipes, NormalizedHistory, row.artifact).cost
            /\ Len(row.ingredients) = Len(details.ingredients)
            /\ \A j \in 1..Len(row.ingredients) :
                  /\ row.ingredients[j].discountedCost
                        = details.ingredients[j].discountedCost
                  /\ row.ingredients[j].totalCost = details.ingredients[j].totalCost

\* The catalog without the ingredients that have no recipe.
WithoutRawIngredients ==
    [i \in 1..Len(recipes) |->
        [recipes[i] EXCEPT !.ingredients =
            SelectSeq(recipes[i].ingredients,
                      LAMBDA pair : HasRecipe(recipes, pair[1]))]]

\* The names without a recipe: raw materials, null entries, unknown names.
RawNames == {name \in NamesOf(recipes) \cup {"ghost"} : ~HasRecipe(recipes, name)}

\* The while loop of craftOne is at an ingredient without a recipe that is
\* short.
ShortOfRawIngredient ==
    /\ pc = "check"
    /\ LET ingredients == RecipeOf(recipes, Top.artifact).ingredients
       IN  /\ Top.i <= Len(ingredients)
           /\ ~HasRecipe(recipes, ingredients[Top.i][1])
           /\ IsShort(Get(simulationInventory, ingredients[Top.i][1]),
                      requiredQuantity(ingredients[Top.i][2]))

\* C24, the states: an ingredient without a recipe adds nothing to the
\* recursive cost, has base, discounted and total cost 0 in the breakdown,
\* is never the artifact of a nested craftOne call and never gains a craft
\* count; the cost details of an artifact without a recipe are all zero
\* with no ingredients.
RawIngredientCostsNothing ==
    /\ pc = "compare" =>
          /\ row.recursiveCost =
                getRecursiveCraftCost(WithoutRawIngredients, heap["craftCounts"],
                                      row.artifact).cost
          /\ \A j \in 1..Len(row.ingredients) :
                row.ingredients[j].name \in RawNames =>
                    /\ row.ingredients[j].baseCost = 0
                    /\ row.ingredients[j].discountedCost = Num(0)
                    /\ row.ingredients[j].totalCost = Num(0)
    /\ (pc = "call" /\ frames # <<>>) => call.artifact \notin RawNames
    /\ caller # "none" =>
          \A name \in RawNames :
              /\ name \notin stack
              /\ Get(simulationCraftCounts, name)
                    = Get(cloneCountMap(heap["craftCounts"]), name)
    /\ \A name \in RawNames :
          /\ getCostDetails(recipes, heap["craftCounts"], name, Num(MaxBatch))
                = [baseCost |-> 0, discountedCost |-> Num(0),
                   totalDirectCost |-> Num(0), craftCount |-> 0,
                   discountPercent |-> Quotient(0, 1), ingredients |-> <<>>]
          /\ getRecursiveCraftCost(recipes, heap["craftCounts"], name).cost = Num(0)

\* C24: an ingredient without a recipe costs nothing and is never expanded,
\* and a shortage of it makes the craftOne call return false at once, in
\* either mode.
C24_RawIngredientNeverExpanded ==
    /\ []RawIngredientCostsNothing
    /\ [][ShortOfRawIngredient =>
             /\ pc' = "return"
             /\ ~ret'.value
             /\ ret'.artifact = Top.artifact
             /\ heap' = heap /\ totalCost' = totalCost]_vars

\* An auto-mode attempt on the row's artifact has failed with an
\* ingredient without a recipe short, and the row's recursive cost is paid
\* for the craftable part of the expansion alone.
C24_Witness ==
    /\ caller = "auto" /\ pc = "return" /\ frames = <<>> /\ ~ret.value
    /\ row.recursiveCost.v > 0
    /\ \E j \in 1..Len(row.ingredients) :
          /\ row.ingredients[j].name \in RawNames
          /\ Get(simulationInventory, row.ingredients[j].name)
                < row.ingredients[j].quantity

\* C25: when craftOne reaches the deduction, the inventory holds at least
\* the required quantity of every ingredient of the recipe, in either mode,
\* so that the floor at 0 takes nothing away.
C25_DeductionNeverClips ==
    pc = "craft" =>
        LET ingredients == RecipeOf(recipes, Top.artifact).ingredients
        IN  \A j \in 1..Len(ingredients) :
                Get(simulationInventory, ingredients[j][1])
                    >= requiredQuantity(ingredients[j][2])

\* The number of unit builds of `name` in the expansion of `target`.
RECURSIVE Builds(_, _)
RECURSIVE BuildsBelow(_, _)
Builds(name, target) ==
    IF ~HasRecipe(recipes, target) THEN 0
    ELSE (IF name = target THEN 1 ELSE 0)
            + BuildsBelow(name, RecipeOf(recipes, target).ingredients)

BuildsBelow(name, ingredients) ==
    IF ingredients = <<>> THEN 0
    ELSE ingredients[1][2] * Builds(name, ingredients[1][1])
            + BuildsBelow(name, Tail(ingredients))

\* The batch costs of the artifacts of `names`, each for its number of
\* unit builds from the caller's craft count on.
RECURSIVE SumOfBatches(_, _)
SumOfBatches(names, target) ==
    IF names = <<>> THEN Num(0)
    ELSE LET name == names[1]
             batch == IF HasRecipe(recipes, name) /\ Builds(name, target) > 0
                      THEN getBatchDirectCost(RecipeOf(recipes, name).cost,
                                              Get(heap["craftCounts"], name),
                                              Num(Builds(name, target)))
                      ELSE Num(0)
         IN  NumAdd(batch, SumOfBatches(Tail(names), target))

\* The catalog with the ingredients of every recipe in the opposite order.
IngredientsReversed ==
    [i \in 1..Len(recipes) |->
        [recipes[i] EXCEPT !.ingredients =
            [j \in 1..Len(recipes[i].ingredients) |->
                recipes[i].ingredients[Len(recipes[i].ingredients) + 1 - j]]]]

\* The ingredients through which the expansion of `target` reaches `name`.
ParentsWithin(name, target) ==
    {parent \in {target} \cup Descendants(recipes, target) :
        name \in CraftableIngredients(recipes, parent)}

\* C26: on an acyclic catalog the recursive cost of an artifact is the sum,
\* over the craftable artifacts X of its expansion, of the batch direct cost
\* of n_X crafts of X from the caller's craft count of X on, n_X being the
\* number of unit builds of X; the order of the ingredients does not matter.
C26_RecursiveCostIsSumOfBatches ==
    answer.done =>
        /\ answer.cost = SumOfBatches(Keys(recipes), query.artifact)
        /\ answer.cost = getRecursiveCraftCost(IngredientsReversed,
                                               heap["craftCounts"],
                                               query.artifact).cost

\* The recursive cost of an artifact whose expansion builds an ingredient
\* four times, through two parents, with a unit cost that falls on the way.
C26_Witness ==
    /\ answer.done /\ ~answer.cost.nan
    /\ \E name \in KeySet(recipes) \ {query.artifact} :
          /\ Builds(name, query.artifact) >= 4
          /\ Cardinality(ParentsWithin(name, query.artifact)) >= 2
          /\ getBatchDirectCost(RecipeOf(recipes, name).cost,
                                Get(heap["craftCounts"], name), Num(4)).v
                < 4 * getBatchDirectCost(RecipeOf(recipes, name).cost,
                                         Get(heap["craftCounts"], name), Num(1)).v

\* The unit costs of the crafts a simulation has made so far of the
\* artifacts of `names`: for each artifact, those at the craft counts from
\* its normalized starting count up to its simulated count less one.
RECURSIVE CostOfSimulatedCrafts(_)
CostOfSimulatedCrafts(names) ==
    IF names = <<>> THEN Num(0)
    ELSE LET name == names[1]
             start == Get(cloneCountMap(heap["craftCounts"]), name)
             crafted == Get(simulationCraftCounts, name) - start
             paid == IF HasRecipe(recipes, name)
                     THEN CostOfCrafts(RecipeOf(recipes, name).cost, 2 * start, crafted)
                     ELSE Num(0)
         IN  NumAdd(paid, CostOfSimulatedCrafts(Tail(names)))

\* C27: at every point of a simulateCraftMode run the accumulated cost is
\* the sum, over the artifacts, of the discounted unit costs at the craft
\* counts from the starting normalized count to the current simulated
\* count less one; the cost returned is that sum, whatever the last
\* attempt crafted before it failed.
C27_CostFollowsCraftCounts ==
    (caller # "none" /\ simResult.outcome # "cycle") =>
        /\ totalCost = CostOfSimulatedCrafts(Keys(recipes))
        /\ \A name \in DOMAIN simulationCraftCounts :
              Get(simulationCraftCounts, name)
                  >= Get(cloneCountMap(heap["craftCounts"]), name)
        /\ pc = "simulated" => simResult.cost = totalCost

\* A simulation has returned after a last, failed attempt that crafted an
\* intermediate, and its cost is more than the crafts of the artifact alone.
C27_Witness ==
    /\ pc = "simulated" /\ simResult.outcome = "returned"
    /\ attemptStart # simulationInventory
    /\ simResult.cost.v
          > CostOfCrafts(RecipeOf(recipes, artifact).cost,
                         2 * Get(cloneCountMap(heap["craftCounts"]), artifact),
                         simResult.count).v
    /\ \E name \in KeySet(recipes) \ {artifact} :
          Get(simulationCraftCounts, name)
              > Get(cloneCountMap(heap["craftCounts"]), name) + simResult.count

\* The artifacts of the craftOne calls in progress, outermost first.
CallChain == [i \in 1..Len(frames) |-> frames[i].artifact]

\* C28: no simulation ends in the cycle error and no craftOne call finds
\* its artifact on the stack unless the catalog has a cycle; while craftOne
\* runs, the stack holds exactly the artifacts of the nested calls in
\* progress, each of them once, so that it is empty again when the
\* outermost call has returned.
C28_StackIsCallChain ==
    /\ (simResult.outcome = "cycle" \/ outcome = "cycle-error") => ~Acyclic[recipes]
    /\ (pc = "call" /\ InProgress(stack, call.artifact)) => ~Acyclic[recipes]
    /\ pc \in {"call", "check", "craft", "return"} =>
          /\ stack = Range(CallChain)
          /\ Cardinality(stack) = Len(frames)
    /\ (pc = "return" /\ frames = <<>>) => stack = {}

\* On an acyclic catalog a nested craftOne call is about to start on an
\* artifact that is an ingredient of two artifacts of the expansion and
\* that this simulation has crafted before.
C28_Witness ==
    /\ Acyclic[recipes]
    /\ pc = "call" /\ Len(frames) >= 1
    /\ HasRecipe(recipes, call.artifact)
    /\ Cardinality(ParentsWithin(call.artifact, artifact)) >= 2
    /\ Get(simulationCraftCounts, call.artifact)
          > Get(cloneCountMap(heap["craftCounts"]), call.artifact)

\* The quantity of `name` a craft of `target` takes out of the inventory.
RequiredOf(target, name) ==
    IF InIngredients(RecipeOf(recipes, target), name)
    THEN requiredQuantity(QuantityOf(RecipeOf(recipes, target), name))
    ELSE 0

\* A top-level craftOne call without auto-crafting has just returned true.
DirectCraftDone ==
    pc = "return" /\ frames = <<>> /\ ret.value /\ ~ret.auto

\* C29: a successful craftOne call in direct mode leaves the inventory of
\* every ingredient lower by the required quantity, that of the crafted
\* artifact higher by 1 and every other entry as it was; the craft count
\* of the crafted artifact higher by 1 and every other as it was; and the
\* accumulated cost higher by one discounted unit cost, the one at the
\* craft count before the increment.
C29_DirectCraftFrame ==
    DirectCraftDone =>
        /\ \A name \in NamesOf(recipes) \cup DOMAIN simulationInventory
                                        \cup DOMAIN ret.entryInventory :
              Get(simulationInventory, name)
                  = Get(ret.entryInventory, name) - RequiredOf(ret.artifact, name)
                        + (IF name = ret.artifact THEN 1 ELSE 0)
        /\ \A name \in NamesOf(recipes) \cup DOMAIN simulationCraftCounts
                                        \cup DOMAIN ret.entryCraftCounts :
              Get(simulationCraftCounts, name)
                  = Get(ret.entryCraftCounts, name)
                        + (IF name = ret.artifact THEN 1 ELSE 0)
        /\ totalCost =
              NumAdd(ret.entryCost,
                     Discount(2 * RecipeOf(recipes, ret.artifact).cost,
                              2 * Get(ret.entryCraftCounts, ret.artifact)).discountedCost)
        /\ stack = {}

\* A direct-mode craft of an artifact with a craftable and a raw ingredient
\* has succeeded at a discounted cost, with other artifacts on hand.
C29_Witness ==
    /\ DirectCraftDone
    /\ CraftableIngredients(recipes, ret.artifact) # {}
    /\ Cardinality(EveryIngredient(recipes, ret.artifact)) >= 2
    /\ Get(ret.entryCraftCounts, ret.artifact) >= 1
    /\ totalCost.v > ret.entryCost.v
    /\ \E name \in DOMAIN simulationInventory :
          /\ name # ret.artifact /\ RequiredOf(ret.artifact, name) = 0
          /\ simulationInventory[name] > 0

\* An optimizeCrafts call is between its first line and its end.
OptimizeRunning ==
    pc \in {"row", "compare", "optimized"} \/ caller \in {"direct", "auto"}

\* C30: a running optimizeCrafts call has called solve exactly once, with the
\* problem text it built, which whenever the call is at a column or at its
\* end is the text of the caller's inventory, and no row exists before that
\* call; when solve throws, the call ends with the solver's error, without
\* a second solve and without a row.
C30_SolveOnceBeforeRows ==
    /\ OptimizeRunning =>
          /\ solveCalls = <<problem>>
          /\ solution # NoSolution
    /\ pc \in {"row", "optimized"} =>
          problem = getProblem(recipes, heap["inventory"])
    /\ ~OptimizeRunning =>
          /\ solveCalls = <<>>
          /\ row = NoRow /\ result = EmptyResult
    /\ solution.kind = "throws" =>
          /\ pc = "optimized" /\ outcome = "solver-error"
          /\ Len(solveCalls) = 1
          /\ row = NoRow /\ result = EmptyResult

\* Two rows have been computed from the one answer of the solver to the
\* problem of an inventory that is not empty.
C30_Witness ==
    /\ pc = "row"
    /\ Len(result.crafts) >= 2
    /\ Len(solveCalls) = 1
    /\ \E name \in DOMAIN heap["inventory"] : heap["inventory"][name] > 0
    /\ solveCalls[1] # getProblem(recipes, EmptyMap)
=============================================================================
